---- MODULE Spec2Model ----
(***************************************************************************)
(* Task tracker with an audit trail: the HTTP handlers of                  *)
(* src/controllers/taskController.js (current revision, lines 1-423) over  *)
(* the task store (models/taskModel.js, modelled from the specification)   *)
(* and the two tables tasks and task_history of config/db.js.              *)
(*                                                                         *)
(* A JavaScript string is a sequence of one-character strings.  The two    *)
(* non-string values null and undefined are the one-element sequences      *)
(* <<"null">> and <<"undefined">>, whose element is no character.          *)
(* An object whose key order matters (a request body, zod's output) is a   *)
(* sequence of <<key, value>> pairs with distinct keys.                    *)
(***************************************************************************)
EXTENDS Integers, Sequences, FiniteSets, TLC

\* tz is the local time zone of the server process, fixed while it runs
VARIABLES tasks, task_history, now, pc, loc, res, tz

vars == <<tasks, task_history, now, pc, loc, res, tz>>

\* ------------------------------------------------------------- bounds
MaxTasks == 1
MaxHistory == 3
MaxNow == 2
MaxKeys == 2
Procs == {1, 2}

\* ------------------------------------------------------- JS values
undefined == <<"undefined">>
null == <<"null">>

IsString(v) == v # undefined /\ v # null

\* !val for a string, null or undefined
Falsy(v) == v = undefined \/ v = null \/ v = <<>>

\* `${v}` and String(v)
String(v) ==
  IF v = null THEN <<"n", "u", "l", "l">>
  ELSE IF v = undefined THEN <<"u", "n", "d", "e", "f", "i", "n", "e", "d">>
  ELSE v

\* v ?? ''
OrEmpty(v) == IF v = null \/ v = undefined THEN <<>> ELSE v

Alpha == <<
  <<"A", "a">>, <<"B", "b">>, <<"C", "c">>, <<"D", "d">>, <<"E", "e">>,
  <<"F", "f">>, <<"G", "g">>, <<"H", "h">>, <<"I", "i">>, <<"J", "j">>,
  <<"K", "k">>, <<"L", "l">>, <<"M", "m">>, <<"N", "n">>, <<"O", "o">>,
  <<"P", "p">>, <<"Q", "q">>, <<"R", "r">>, <<"S", "s">>, <<"T", "t">>,
  <<"U", "u">>, <<"V", "v">>, <<"W", "w">>, <<"X", "x">>, <<"Y", "y">>,
  <<"Z", "z">> >>

UpperLetters == {Alpha[i][1] : i \in 1..Len(Alpha)}
LowerLetters == {Alpha[i][2] : i \in 1..Len(Alpha)}
DigitChars == <<"0", "1", "2", "3", "4", "5", "6", "7", "8", "9">>
Digits == {DigitChars[i] : i \in 1..Len(DigitChars)}

toUpperCaseChar(c) ==
  IF c \in LowerLetters
  THEN Alpha[CHOOSE i \in 1..Len(Alpha) : Alpha[i][2] = c][1]
  ELSE c

toLowerCaseChar(c) ==
  IF c \in UpperLetters
  THEN Alpha[CHOOSE i \in 1..Len(Alpha) : Alpha[i][1] = c][2]
  ELSE c

toUpperCase(s) == [i \in 1..Len(s) |-> toUpperCaseChar(s[i])]
toLowerCase(s) == [i \in 1..Len(s) |-> toLowerCaseChar(s[i])]

RECURSIVE Join(_, _)
Join(parts, sep) ==
  IF parts = <<>> THEN <<>>
  ELSE IF Len(parts) = 1 THEN parts[1]
  ELSE parts[1] \o sep \o Join(Tail(parts), sep)

\* ------------------------------------------------------- objects
Has(o, k) == \E i \in 1..Len(o) : o[i][1] = k
Get(o, k) == IF Has(o, k) THEN o[CHOOSE i \in 1..Len(o) : o[i][1] = k][2] ELSE undefined

\* --------------------------------------------------------- dates
\* Time is counted in ticks from 0 to 9.  A date string is <<d, "Z">> or
\* <<d, ".", "0", "Z">> (two texts of the instant d, as "...T12:00Z" and
\* "...T12:00:00.000Z" are), <<d>> (no zone designator), or anything else,
\* which does not parse.
NaN == -1

DigitVal(c) == CHOOSE n \in 0..9 : DigitChars[n + 1] = c

\* new Date(s).getTime()
getTime(s) ==
  IF Len(s) \in {1, 2, 4} /\ s[1] \in Digits
     /\ (Len(s) = 2 => s[2] = "Z")
     /\ (Len(s) = 4 => s[2] = "." /\ s[3] = "0" /\ s[4] = "Z")
  THEN DigitVal(s[1])
  ELSE NaN

\* a < b on numbers, false when either is NaN
Lt(a, b) == a # NaN /\ b # NaN /\ a < b

\* new Date(n).toISOString()
toISOString(n) == <<DigitChars[n + 1], ".", "0", "Z">>

TicksPerMinute == 2

InvalidDate == <<"I", "n", "v", "a", "l", "i", "d", " ", "D", "a", "t", "e">>

\* The local time zones a server may run in, as the offset of its wall clock
\* from UTC in minutes.
UTC == 0
TimeZones == {UTC, 1}

\* the calendar minute of the instant on the wall clock of zone, or
\* "Invalid Date"
toLocaleStringIn(zone, s) ==
  IF getTime(s) = NaN THEN InvalidDate
  ELSE <<DigitChars[(getTime(s) \div TicksPerMinute) + zone + 1], "m">>

\* new Date(s).toLocaleString('en-GB', {day, month, year, hour, minute}): no
\* timeZone option, so the wall clock is the server's
toLocaleString(s) == toLocaleStringIn(tz, s)

\* src/filters/assertUTC.js: passes iff the string ends with 'Z'
assertUTC(s) == IsString(s) /\ Len(s) >= 1 /\ s[Len(s)] = "Z"

\* ------------------------------------------------ validation (zod)
Whitespace == {" ", "\t", "\n", "\r"}
\* the punctuation of TITLE_REGEX and DESC_REGEX (the pound sign is left out)
Punctuation == {".", ",", ":", ";", "_", "-", "(", ")", "'", "\"", "?", "!", "$", "%", "&"}
RegexChars == UpperLetters \cup LowerLetters \cup Digits \cup Whitespace \cup Punctuation

\* /^[\p{L}\p{N}\s.,:;_\-()'"?!$%&]+$/u
TITLE_REGEX(s) == Len(s) >= 1 /\ \A i \in 1..Len(s) : s[i] \in RegexChars
\* the same class with \n\r named again, which \s already holds
DESC_REGEX(s) == Len(s) >= 1 /\ \A i \in 1..Len(s) : s[i] \in RegexChars \cup {"\n", "\r"}

TitleMax == 100
DescMax == 2000

PENDING == <<"P", "E", "N", "D", "I", "N", "G">>
IN_PROGRESS == <<"I", "N", "_", "P", "R", "O", "G", "R", "E", "S", "S">>
COMPLETED == <<"C", "O", "M", "P", "L", "E", "T", "E", "D">>
StatusEnum == {PENDING, IN_PROGRESS, COMPLETED}

Issue(path, message) == [path |-> path, message |-> message]
When(cond, issue) == IF cond THEN <<issue>> ELSE <<>>

\* One field of taskSchema on its input value v (undefined when the key is
\* absent): [set, value, issues].  partial is taskSchema.partial(): every field
\* optional, and an optional wrapper answers undefined before the default runs.
NotSet == [set |-> FALSE, value |-> undefined, issues |-> <<>>]
IsSet(v) == [set |-> TRUE, value |-> v, issues |-> <<>>]
Bad(issues) == [set |-> FALSE, value |-> undefined, issues |-> issues]

schema_title_maxExclusive(v, partial) ==
  IF v = undefined
  THEN IF partial THEN NotSet ELSE Bad(<<Issue("title", "Required")>>)
  ELSE IF ~IsString(v) THEN Bad(<<Issue("title", "Expected string")>>)
  ELSE LET issues ==
             When(Len(v) < 1, Issue("title", "Title is required"))
             \o When(Len(v) >= TitleMax, Issue("title", "Title must be 100 characters or less"))
             \o When(~TITLE_REGEX(v), Issue("title", "Title contains invalid characters"))
       IN IF issues = <<>> THEN IsSet(v) ELSE Bad(issues)

schema_title(v, partial) ==
  IF v = undefined
  THEN IF partial THEN NotSet ELSE Bad(<<Issue("title", "Required")>>)
  ELSE IF ~IsString(v) THEN Bad(<<Issue("title", "Expected string")>>)
  ELSE LET issues ==
             When(Len(v) < 1, Issue("title", "Title is required"))
             \o When(Len(v) > TitleMax, Issue("title", "Title must be 100 characters or less"))
             \o When(~TITLE_REGEX(v), Issue("title", "Title contains invalid characters"))
       IN IF issues = <<>> THEN IsSet(v) ELSE Bad(issues)

schema_description(v, partial) ==
  IF v = undefined THEN NotSet
  ELSE IF IsString(v) /\ Len(v) <= DescMax /\ DESC_REGEX(v) THEN IsSet(v)
  ELSE IF v = <<>> THEN IsSet(v)
  ELSE Bad(<<Issue("description", "Invalid input")>>)

schema_status(v, partial) ==
  IF v = undefined
  THEN IF partial THEN NotSet ELSE IsSet(PENDING)
  ELSE IF v \in StatusEnum THEN IsSet(v)
  ELSE Bad(<<Issue("status", "Invalid enum value")>>)

schema_due_date(v, partial) ==
  IF v = undefined
  THEN IF partial THEN NotSet ELSE Bad(<<Issue("due_date", "Required")>>)
  ELSE IF ~IsString(v) THEN Bad(<<Issue("due_date", "Expected string")>>)
  ELSE LET issues ==
             When(Len(v) < 1, Issue("due_date", "Due date is required"))
             \o When(~assertUTC(v), Issue("due_date", "Due date must be a valid ISO string"))
       IN IF issues = <<>> THEN IsSet(v) ELSE Bad(issues)

Entry(k, r) == IF r.set THEN << <<k, r.value>> >> ELSE <<>>

\* taskSchema.safeParse(body) / taskSchema.partial().safeParse(body): unknown
\* keys are stripped, the output's keys are in the order of the schema
taskSchema(body, partial) ==
  LET t == schema_title(Get(body, "title"), partial)
      d == schema_description(Get(body, "description"), partial)
      s == schema_status(Get(body, "status"), partial)
      u == schema_due_date(Get(body, "due_date"), partial)
      issues == t.issues \o d.issues \o s.issues \o u.issues
  IN [success |-> issues = <<>>,
      data |-> IF issues = <<>>
               THEN Entry("title", t) \o Entry("description", d)
                    \o Entry("status", s) \o Entry("due_date", u)
               ELSE <<>>,
      errors |-> issues]

\* ------------------------------------------------- AUDIT_CONFIG
AUDIT_CONFIG_keys == <<"title", "description", "status", "due_date">>

Title == <<"T", "i", "t", "l", "e">>
Description == <<"D", "e", "s", "c", "r", "i", "p", "t", "i", "o", "n">>
Status == <<"S", "t", "a", "t", "u", "s">>
DueDate == <<"D", "u", "e", " ", "d", "a", "t", "e">>

label(key) ==
  CASE key = "title" -> Title
    [] key = "description" -> Description
    [] key = "status" -> Status
    [] key = "due_date" -> DueDate

WordChar(c) == c \in UpperLetters \cup LowerLetters \cup Digits \cup {"_"}

\* the status token as stored
status_format_raw(val) == val

\* val.replace(/_/g, ' ').toLowerCase().replace(/\b\w/g, c => c.toUpperCase())
status_format(val) ==
  IF Falsy(val) THEN val
  ELSE LET spaced == [i \in 1..Len(val) |-> IF val[i] = "_" THEN " " ELSE val[i]]
           lower == toLowerCase(spaced)
       IN [i \in 1..Len(lower) |->
             IF WordChar(lower[i]) /\ (i = 1 \/ ~WordChar(lower[i - 1]))
             THEN toUpperCaseChar(lower[i])
             ELSE lower[i]]

\* String(a).toUpperCase() === String(b).toUpperCase()
status_isEqual(a, b) == toUpperCase(String(a)) = toUpperCase(String(b))

due_date_isEqual_text(a, b) == IF Falsy(a) /\ Falsy(b) THEN TRUE ELSE a = b

due_date_isEqual(a, b) ==
  IF Falsy(a) /\ Falsy(b) THEN TRUE
  ELSE IF Falsy(a) \/ Falsy(b) THEN FALSE
  ELSE getTime(a) # NaN /\ getTime(a) = getTime(b)

due_date_formatIn(zone, val) == IF Falsy(val) THEN <<>> ELSE toLocaleStringIn(zone, val)

due_date_format(val) == due_date_formatIn(tz, val)

\* config.isEqual ? config.isEqual(oldVal, newVal) : oldVal === newVal
isSame(key, oldVal, newVal) ==
  CASE key = "status" -> status_isEqual(oldVal, newVal)
    [] key = "due_date" -> due_date_isEqual(oldVal, newVal)
    [] OTHER -> oldVal = newVal

\* config.format ? config.format(val) : (val ?? ''), as the template renders it
formatText(key, val) ==
  CASE key = "status" -> String(status_format(val))
    [] key = "due_date" -> due_date_format(val)
    [] OTHER -> OrEmpty(val)

ChangedFrom == <<" ", "c", "h", "a", "n", "g", "e", "d", " ", "f", "r", "o", "m", " ", "'">>
To == <<"'", " ", "t", "o", " ", "'">>

\* `${config.label} changed from '${fromText}' to '${toText}'`
changeText(key, oldVal, newVal) ==
  label(key) \o ChangedFrom \o formatText(key, oldVal) \o To
  \o formatText(key, newVal) \o <<"'">>

RECURSIVE changesOver(_, _, _)
changesOver(keys, original, incoming) ==
  IF keys = <<>> THEN <<>>
  ELSE LET key == Head(keys)
           rest == changesOver(Tail(keys), original, incoming)
       IN IF ~Has(incoming, key) THEN rest
          ELSE IF isSame(key, original[key], Get(incoming, key)) THEN rest
          ELSE <<changeText(key, original[key], Get(incoming, key))>> \o rest

\* Object.keys(incoming).forEach(key => ...): a clause for every key of the
\* payload
generateChangeLog_incomingKeys(original, incoming) ==
  LET outside == SelectSeq(incoming, LAMBDA kv :
                   kv[1] \notin {"title", "description", "status", "due_date"})
  IN changesOver(AUDIT_CONFIG_keys, original, incoming)
     \o [i \in 1..Len(outside) |->
           <<outside[i][1]>> \o ChangedFrom \o To \o outside[i][2] \o <<"'">>]

\* Object.keys(AUDIT_CONFIG).forEach(key => ...)
generateChangeLog(original, incoming) ==
  changesOver(AUDIT_CONFIG_keys, original, incoming)

\* val.replace is called without the guard `val ?`: a TypeError on null and
\* undefined
status_format_throws_unguarded(val) == ~IsString(val)

\* status.format throws a TypeError when val is truthy and has no method
\* replace; new Date(val) and toLocaleString throw on no value
status_format_throws(val) == ~Falsy(val) /\ ~IsString(val)

format_throws(key, val) == key = "status" /\ status_format_throws(val)

\* generateChangeLog(original, incoming) throws: a format of a changed field
\* does
generateChangeLog_throws(original, incoming) ==
  \E i \in 1..Len(AUDIT_CONFIG_keys) :
    LET key == AUDIT_CONFIG_keys[i]
    IN /\ Has(incoming, key)
       /\ ~isSame(key, original[key], Get(incoming, key))
       /\ format_throws(key, original[key]) \/ format_throws(key, Get(incoming, key))

\* ---------------------------------------------------- TaskModel
\* models/taskModel.js over the tables of config/db.js.  Both ids are
\* AUTOINCREMENT keys of tables no handler deletes from, so a row's id is its
\* position in the table.  An optional task is <<>> or <<task>>.
TaskCreated == <<"T", "a", "s", "k", " ", "c", "r", "e", "a", "t", "e", "d">>
TaskDeleted == <<"T", "a", "s", "k", " ", "d", "e", "l", "e", "t", "e", "d">>

Exists(id) == id \in 1..Len(tasks)

\* a lookup without the deleted_at filter
findById_any(id) == IF Exists(id) THEN <<tasks[id]>> ELSE <<>>

\* SELECT * FROM tasks WHERE id = ? AND deleted_at IS NULL
findById(id) == IF Exists(id) /\ tasks[id].deleted_at = null THEN <<tasks[id]>> ELSE <<>>

HistoryRow(task_id, change_summary, changed_at) ==
  [id |-> Len(task_history) + 1, task_id |-> task_id,
   change_summary |-> change_summary, changed_at |-> changed_at]

\* the row create(task) inserts: a column without a value is NULL
createdTask(taskData) ==
  [id |-> Len(tasks) + 1,
   title |-> Get(taskData, "title"),
   description |-> IF Has(taskData, "description") THEN Get(taskData, "description") ELSE null,
   status |-> Get(taskData, "status"),
   due_date |-> Get(taskData, "due_date"),
   created_at |-> Get(taskData, "created_at"),
   updated_at |-> Get(taskData, "updated_at"),
   deleted_at |-> null]

\* a create that inserts the row alone
TaskModel_create_noEntry(taskData) ==
  /\ tasks' = Append(tasks, createdTask(taskData))
  /\ task_history' = task_history

\* a create whose entry is rejected after its row went in, with no rollback
TaskModel_create_partial(taskData) ==
  /\ tasks' = Append(tasks, createdTask(taskData))
  /\ task_history' = task_history

\* create(task): the row and its "Task created" entry, in one transaction,
\* the entry with the row's timestamp
TaskModel_create(taskData) ==
  /\ tasks' = Append(tasks, createdTask(taskData))
  /\ task_history' = Append(task_history,
        HistoryRow(Len(tasks) + 1, TaskCreated, Get(taskData, "created_at")))

\* the row update(id, task, changeSummary) leaves at id
updatedTask(id, task) ==
  [tasks[id] EXCEPT !.title = task.title, !.description = task.description,
                    !.status = task.status, !.due_date = task.due_date,
                    !.updated_at = task.updated_at]

\* an update of every column of the row WHERE id = ?, from the task passed in
TaskModel_update_wholeRow(id, task, changeSummary) ==
  IF ~Exists(id)
  THEN UNCHANGED <<tasks, task_history>>
  ELSE /\ tasks' = [tasks EXCEPT ![id] = task]
       /\ task_history' =
            IF changeSummary = null THEN task_history
            ELSE Append(task_history, HistoryRow(id, changeSummary, toISOString(now)))

\* update(id, task, changeSummary): UPDATE ... WHERE id = ? AND deleted_at IS
\* NULL; with no row updated nothing is written; the entry, if any, in the same
\* transaction with the current timestamp
TaskModel_update(id, task, changeSummary) ==
  IF findById(id) = <<>>
  THEN UNCHANGED <<tasks, task_history>>
  ELSE /\ tasks' = [tasks EXCEPT ![id] = updatedTask(id, task)]
       /\ task_history' =
            IF changeSummary = null THEN task_history
            ELSE Append(task_history, HistoryRow(id, changeSummary, toISOString(now)))

\* what update resolves to: the refreshed task, nothing when no row was updated
TaskModel_update_result(id, task) ==
  IF findById(id) = <<>> THEN <<>> ELSE <<updatedTask(id, task)>>

\* delete(id) fails on an id that is no row: the entry's foreign key
TaskModel_delete_throws(id) == ~Exists(id)

\* a delete that takes the task's entries with it, as ON DELETE CASCADE would
TaskModel_delete_cascade(id) ==
  IF TaskModel_delete_throws(id)
  THEN UNCHANGED <<tasks, task_history>>
  ELSE /\ tasks' = [tasks EXCEPT ![id].deleted_at = toISOString(now)]
       /\ task_history' = SelectSeq(task_history, LAMBDA h : h.task_id # id)

\* a delete without the deleted_at IS NULL filter
TaskModel_delete_overwrite(id) ==
  IF TaskModel_delete_throws(id)
  THEN UNCHANGED <<tasks, task_history>>
  ELSE /\ tasks' = [tasks EXCEPT ![id].deleted_at = toISOString(now)]
       /\ task_history' = Append(task_history, HistoryRow(id, TaskDeleted, toISOString(now)))

\* delete(id): UPDATE tasks SET deleted_at = now WHERE id = ? AND deleted_at IS
\* NULL, and the "Task deleted" entry, in one transaction
TaskModel_delete(id) ==
  IF TaskModel_delete_throws(id)
  THEN UNCHANGED <<tasks, task_history>>
  ELSE /\ tasks' = IF tasks[id].deleted_at = null
                   THEN [tasks EXCEPT ![id].deleted_at = toISOString(now)]
                   ELSE tasks
       /\ task_history' = Append(task_history, HistoryRow(id, TaskDeleted, toISOString(now)))

\* ORDER BY changed_at DESC alone, which leaves a tie in insertion order
Newer_ascendingId(a, b) ==
  \/ getTime(a.changed_at) > getTime(b.changed_at)
  \/ getTime(a.changed_at) = getTime(b.changed_at) /\ a.id < b.id

\* A write of the store can be rejected by the database (a busy or full
\* database): the transaction is rolled back and the call throws.
TaskModel_create_rejected(taskData) == UNCHANGED <<tasks, task_history>>
TaskModel_update_rejected(id, task, changeSummary) == UNCHANGED <<tasks, task_history>>
TaskModel_delete_rejected(id) == UNCHANGED <<tasks, task_history>>

\* entry a comes before entry b under ORDER BY changed_at DESC, id DESC
Newer(a, b) ==
  \/ getTime(a.changed_at) > getTime(b.changed_at)
  \/ getTime(a.changed_at) = getTime(b.changed_at) /\ a.id > b.id

RECURSIVE SortNewestFirst(_)
SortNewestFirst(rows) ==
  IF rows = {} THEN <<>>
  ELSE LET first == CHOOSE a \in rows : \A b \in rows \ {a} : Newer(a, b)
       IN <<first>> \o SortNewestFirst(rows \ {first})

\* SELECT * FROM task_history WHERE task_id = ? ORDER BY changed_at DESC, id DESC
getHistory(rows, taskId) ==
  SortNewestFirst({rows[i] : i \in {j \in 1..Len(rows) : rows[j].task_id = taskId}})

\* ------------------------------------------------------- requests
\* Spec runs requests side by side on few bodies; SpecSeq runs one request at
\* a time on many.
Distinct(b) == \A i, j \in 1..Len(b) : i # j => b[i][1] # b[j][1]

Pairs ==
  {<<"title", v>> : v \in {<<"a">>, <<"b">>}}
  \cup {<<"status", v>> : v \in {IN_PROGRESS}}
  \cup {<<"due_date", v>> : v \in {<<"3", "Z">>, <<"0", "Z">>}}

\* request bodies of Spec: up to MaxKeys keys, in any order
Bodies == {b \in UNION {[1..n -> Pairs] : n \in 0..MaxKeys} : Distinct(b)}

TitleValues == {<<"a">>, <<"b">>, <<"<">>, <<>>}
DescriptionValues == {<<>>, <<"x">>}
StatusValues == {PENDING, IN_PROGRESS, <<"D", "O", "N", "E">>}
DueDateValues ==
  {<<"3", "Z">>, <<"3", ".", "0", "Z">>, <<"1", "Z">>, <<"0", "Z">>, <<"x", "Z">>, <<"3">>}

Reverse(b) == [i \in 1..Len(b) |-> b[Len(b) + 1 - i]]

\* request bodies of SpecSeq: any of the four fields, absent or with one of its
\* values, the keys in the order of the schema or in the opposite order
OrderedBodies ==
  {t \o d \o s \o u :
     t \in {<<>>} \cup {<< <<"title", v>> >> : v \in TitleValues},
     d \in {<<>>} \cup {<< <<"description", v>> >> : v \in DescriptionValues},
     s \in {<<>>} \cup {<< <<"status", v>> >> : v \in StatusValues},
     u \in {<<>>} \cup {<< <<"due_date", v>> >> : v \in DueDateValues}}

RichBodies == OrderedBodies \cup {Reverse(b) : b \in OrderedBodies}

\* the :id of a request: the ids a table can hold and one it cannot
Ids == 1..(MaxTasks + 1)

\* ------------------------------------------------------ responses
\* The response being sent: the handler, with the :id and the body of the
\* request it answers (req.params.id, req.body), the HTTP status, the kind of
\* body, and what the body carries.  calls lists the TaskModel methods the
\* handler called for this request, error the error its catch block logged.
Response(handler, id, body, status, view, calls) ==
  [handler |-> handler, id |-> id, body |-> body, status |-> status,
   view |-> view, calls |-> calls, errors |-> <<>>, problem |-> <<>>,
   task |-> <<>>, history |-> <<>>, error |-> "none"]

statusTitles(statusCode) ==
  CASE statusCode = 400 -> "Bad Request"
    [] statusCode = 401 -> "Unauthorized"
    [] statusCode = 403 -> "Forbidden"
    [] statusCode = 404 -> "Not Found"
    [] statusCode = 405 -> "Method Not Allowed"
    [] statusCode = 409 -> "Conflict"
    [] statusCode = 415 -> "Unsupported Media Type"
    [] statusCode = 422 -> "Unprocessable Entity"
    [] statusCode = 500 -> "Internal Server Error"
    [] OTHER -> "Unknown Error"

\* the detail each handler passes to sendApiError
detail(handler, id, statusCode) ==
  IF statusCode = 404 THEN <<"Task with ID ", id, " could not be found.">>
  ELSE CASE handler = "createTask" -> <<"An unexpected error occurred while creating the task.">>
         [] handler = "getTaskById" -> <<"An unexpected error occurred while retrieving the task.">>
         [] handler = "updateTask" -> <<"An unexpected error occurred while updating the task.">>
         [] handler = "deleteTask" -> <<"An unexpected error occurred while deleting the task.">>
         [] OTHER -> <<"An unexpected error occurred while retrieving task history.">>

\* utils/apiHelper.js
sendApiError(handler, id, body, statusCode, calls) ==
  [Response(handler, id, body, statusCode, "problem", calls) EXCEPT
     !.problem = <<[type |-> <<"https://httpstatuses.com/", statusCode>>,
                    title |-> statusTitles(statusCode),
                    status |-> statusCode,
                    detail |-> detail(handler, id, statusCode)]>>]

FutureError == <<Issue("due_date", "Due date must be in the future")>>

\* a merge onto the row as it is stored now, not onto the task that was loaded
Spread_ontoStored(existingTask, data, updated_at) ==
  [k \in DOMAIN existingTask |->
     IF k = "updated_at" THEN updated_at
     ELSE IF Has(data, k) THEN Get(data, k)
     ELSE tasks[existingTask.id][k]]

\* { ...existingTask, ...data, updated_at }
Spread(existingTask, data, updated_at) ==
  [k \in DOMAIN existingTask |->
     IF k = "updated_at" THEN updated_at
     ELSE IF Has(data, k) THEN Get(data, k)
     ELSE existingTask[k]]

\* a caller that keeps the first change only
joinChanges_first(changes) == IF Len(changes) > 0 THEN changes[1] ELSE null

\* changes.length ? changes.join("\n") : null
joinChanges(changes) == IF Len(changes) > 0 THEN Join(changes, <<"\n">>) ELSE null

\* ------------------------------------------------------- handlers
\* A handler runs from one await to the next as one action.  A handler with
\* an await before its write holds a slot p while suspended: pc[p] is the await
\* it is suspended at and loc[p] holds its local variables.  res is the
\* response being sent; the next request is served once it is flushed.
NoLoc == [id |-> 0, body |-> <<>>, newData |-> <<>>, existingTask |-> <<>>,
          updatedTask |-> <<>>]
NoResponse == Response("none", 0, <<>>, 0, "none", <<>>)

Ready == res = NoResponse
\* a request that will suspend takes the lowest free slot
Free(p) == Ready /\ pc[p] = "idle" /\ \A q \in Procs : q < p => pc[q] # "idle"

InFlight == Cardinality({p \in Procs : pc[p] # "idle"})

Idle(p) == /\ pc' = [pc EXCEPT ![p] = "idle"]
           /\ loc' = [loc EXCEPT ![p] = NoLoc]

\* a create handler that checks the due date after the row is written
createTask_lateCheck(body) ==
  /\ Ready
  /\ LET parsed == taskSchema(body, FALSE)
         validatedData == parsed.data
         due_date == Get(validatedData, "due_date")
         taskData == validatedData \o << <<"created_at", toISOString(now)>>,
                                         <<"updated_at", toISOString(now)>> >>
     IN IF ~parsed.success
        THEN /\ res' = [Response("createTask", 0, body, 400, "errors", <<>>)
                          EXCEPT !.errors = parsed.errors]
             /\ UNCHANGED <<tasks, task_history>>
        ELSE /\ TaskModel_create(taskData)
             /\ res' = IF ~Falsy(due_date) /\ Lt(getTime(due_date), now)
                       THEN [Response("createTask", 0, body, 400, "errors", <<>>)
                               EXCEPT !.errors = FutureError]
                       ELSE [Response("createTask", 0, body, 201, "json", <<"create">>)
                               EXCEPT !.task = <<createdTask(taskData)>>]
  /\ UNCHANGED <<now, pc, loc>>
  /\ UNCHANGED tz

\* POST /api/v1/tasks
createTask(body) ==
  /\ Ready
  /\ LET parsed == taskSchema(body, FALSE)
         validatedData == parsed.data
         due_date == Get(validatedData, "due_date")
         taskData == validatedData \o << <<"created_at", toISOString(now)>>,
                                         <<"updated_at", toISOString(now)>> >>
     IN IF ~parsed.success
        THEN /\ res' = [Response("createTask", 0, body, 400, "errors", <<>>)
                          EXCEPT !.errors = parsed.errors]
             /\ UNCHANGED <<tasks, task_history>>
        ELSE IF ~Falsy(due_date) /\ Lt(getTime(due_date), now)
        THEN /\ res' = [Response("createTask", 0, body, 400, "errors", <<>>)
                          EXCEPT !.errors = FutureError]
             /\ UNCHANGED <<tasks, task_history>>
        ELSE \/ /\ TaskModel_create(taskData)
                /\ res' = [Response("createTask", 0, body, 201, "json", <<"create">>)
                             EXCEPT !.task = <<createdTask(taskData)>>]
             \/ /\ TaskModel_create_rejected(taskData)
                /\ res' = [sendApiError("createTask", 0, body, 500, <<"create">>)
                             EXCEPT !.error = "SQLITE_ERROR"]
  /\ UNCHANGED <<now, pc, loc>>
  /\ UNCHANGED tz

\* POST /create-task
postCreateTask(body) ==
  /\ Ready
  /\ LET validation == taskSchema(body, FALSE)
         data == validation.data
         taskToCreate == data \o << <<"created_at", toISOString(now)>>,
                                    <<"updated_at", toISOString(now)>> >>
     IN IF ~validation.success
        THEN /\ res' = [Response("postCreateTask", 0, body, 200, "create.html", <<>>)
                          EXCEPT !.errors = validation.errors]
             /\ UNCHANGED <<tasks, task_history>>
        ELSE IF Lt(getTime(Get(data, "due_date")), now)
        THEN /\ res' = [Response("postCreateTask", 0, body, 200, "create.html", <<>>)
                          EXCEPT !.errors = FutureError]
             /\ UNCHANGED <<tasks, task_history>>
        ELSE \/ /\ TaskModel_create(taskToCreate)
                /\ res' = Response("postCreateTask", 0, body, 302, "redirect", <<"create">>)
             \/ /\ TaskModel_create_rejected(taskToCreate)
                /\ res' = [Response("postCreateTask", 0, body, 500, "error.html", <<"create">>)
                             EXCEPT !.error = "SQLITE_ERROR"]
  /\ UNCHANGED <<now, pc, loc>>
  /\ UNCHANGED tz

\* GET /api/v1/tasks/:id
getTaskById(id) ==
  /\ Ready
  /\ res' = IF findById(id) = <<>>
            THEN sendApiError("getTaskById", id, <<>>, 404, <<"findById">>)
            ELSE [Response("getTaskById", id, <<>>, 200, "json", <<"findById">>)
                    EXCEPT !.task = findById(id)]
  /\ UNCHANGED <<tasks, task_history, now, pc, loc>>
  /\ UNCHANGED tz

\* PUT /api/v1/tasks/:id, to the await of findById
updateTask_findById(p, id) ==
  /\ Free(p)
  /\ IF findById(id) = <<>>
     THEN /\ res' = sendApiError("updateTask", id, <<>>, 404, <<"findById">>)
          /\ UNCHANGED <<pc, loc>>
     ELSE /\ pc' = [pc EXCEPT ![p] = "updateTask"]
          /\ loc' = [loc EXCEPT ![p] = [NoLoc EXCEPT !.id = id, !.existingTask = findById(id)]]
          /\ UNCHANGED res
  /\ UNCHANGED <<tasks, task_history, now>>
  /\ UNCHANGED tz

\* PUT /api/v1/tasks/:id, from findById's answer to the await of update:
\* the body is read here for the first time.  zod has stripped created_at,
\* updated_at and deleted_at with every other unknown key, so allowedData is
\* the parsed data.
updateTask_update(p, body) ==
  /\ Ready
  /\ pc[p] = "updateTask"
  /\ LET id == loc[p].id
         existingTask == loc[p].existingTask[1]
         parsed == taskSchema(body, TRUE)
         allowedData == parsed.data
         due_date == Get(allowedData, "due_date")
         changes == generateChangeLog(existingTask, allowedData)
         changeSummary == joinChanges(changes)
         merged == Spread(existingTask, allowedData, toISOString(now))
     IN IF ~parsed.success
        THEN /\ res' = [Response("updateTask", id, body, 400, "errors", <<"findById">>)
                          EXCEPT !.errors = parsed.errors]
             /\ Idle(p)
             /\ UNCHANGED <<tasks, task_history>>
        ELSE IF ~Falsy(due_date) /\ due_date # existingTask.due_date
                /\ Lt(getTime(due_date), now)
        THEN /\ res' = [Response("updateTask", id, body, 400, "errors", <<"findById">>)
                          EXCEPT !.errors = FutureError]
             /\ Idle(p)
             /\ UNCHANGED <<tasks, task_history>>
        ELSE \/ /\ TaskModel_update(id, merged, changeSummary)
                /\ pc' = [pc EXCEPT ![p] = "getHistory"]
                /\ loc' = [loc EXCEPT ![p].body = body,
                                      ![p].updatedTask = TaskModel_update_result(id, merged)]
                /\ UNCHANGED res
             \/ /\ TaskModel_update_rejected(id, merged, changeSummary)
                /\ res' = [sendApiError("updateTask", id, body, 500, <<"findById", "update">>)
                             EXCEPT !.error = "SQLITE_ERROR"]
                /\ Idle(p)
  /\ UNCHANGED now
  /\ UNCHANGED tz

\* PUT /api/v1/tasks/:id, from update's answer on:
\* res.status(200).json({ ...updatedTask, history })
updateTask_getHistory(p) ==
  /\ Ready
  /\ pc[p] = "getHistory"
  /\ res' = [Response("updateTask", loc[p].id, loc[p].body, 200, "json",
                      <<"findById", "update", "getHistory">>)
               EXCEPT !.task = loc[p].updatedTask,
                      !.history = getHistory(task_history, loc[p].id)]
  /\ Idle(p)
  /\ UNCHANGED <<tasks, task_history, now>>
  /\ UNCHANGED tz

\* POST /edit-task/:id, to the await of findById
postEditTask_findById(p, id, body) ==
  /\ Free(p)
  /\ LET validation == taskSchema(body, FALSE)
     IN IF ~validation.success
        THEN /\ res' = [Response("postEditTask", id, body, 200, "edit.html", <<>>)
                          EXCEPT !.errors = validation.errors]
             /\ UNCHANGED <<pc, loc>>
        ELSE IF findById(id) = <<>>
        THEN /\ res' = Response("postEditTask", id, body, 404, "error.html", <<"findById">>)
             /\ UNCHANGED <<pc, loc>>
        ELSE /\ pc' = [pc EXCEPT ![p] = "postEditTask"]
             /\ loc' = [loc EXCEPT ![p] = [NoLoc EXCEPT !.id = id, !.body = body,
                                             !.newData = validation.data,
                                             !.existingTask = findById(id)]]
             /\ UNCHANGED res
  /\ UNCHANGED <<tasks, task_history, now>>
  /\ UNCHANGED tz

\* POST /edit-task/:id, from findById's answer on
postEditTask_update(p) ==
  /\ Ready
  /\ pc[p] = "postEditTask"
  /\ LET id == loc[p].id
         existingTask == loc[p].existingTask[1]
         newData == loc[p].newData
         due_date == Get(newData, "due_date")
         changes == generateChangeLog(existingTask, newData)
         changeSummary == joinChanges(changes)
         merged == Spread(existingTask, newData, toISOString(now))
     IN IF ~Falsy(due_date) /\ due_date # existingTask.due_date
           /\ Lt(getTime(due_date), now)
        THEN /\ res' = [Response("postEditTask", id, loc[p].body, 200, "edit.html", <<"findById">>)
                          EXCEPT !.errors = FutureError]
             /\ UNCHANGED <<tasks, task_history>>
        ELSE \/ /\ TaskModel_update(id, merged, changeSummary)
                /\ res' = Response("postEditTask", id, loc[p].body, 302, "redirect",
                                   <<"findById", "update">>)
             \/ /\ TaskModel_update_rejected(id, merged, changeSummary)
                /\ res' = [Response("postEditTask", id, loc[p].body, 500, "error.html",
                                    <<"findById", "update">>)
                             EXCEPT !.error = "SQLITE_ERROR"]
  /\ Idle(p)
  /\ UNCHANGED now
  /\ UNCHANGED tz

\* DELETE /api/v1/tasks/:id, to the await of findById
deleteTask_findById(p, id) ==
  /\ Free(p)
  /\ IF findById(id) = <<>>
     THEN /\ res' = sendApiError("deleteTask", id, <<>>, 404, <<"findById">>)
          /\ UNCHANGED <<pc, loc>>
     ELSE /\ pc' = [pc EXCEPT ![p] = "deleteTask"]
          /\ loc' = [loc EXCEPT ![p] = [NoLoc EXCEPT !.id = id, !.existingTask = findById(id)]]
          /\ UNCHANGED res
  /\ UNCHANGED <<tasks, task_history, now>>
  /\ UNCHANGED tz

\* DELETE /api/v1/tasks/:id, from findById's answer on
deleteTask_delete(p) ==
  /\ Ready
  /\ pc[p] = "deleteTask"
  /\ \/ /\ TaskModel_delete(loc[p].id)
        /\ res' = IF TaskModel_delete_throws(loc[p].id)
                  THEN [sendApiError("deleteTask", loc[p].id, <<>>, 500, <<"findById", "delete">>)
                          EXCEPT !.error = "SQLITE_CONSTRAINT"]
                  ELSE Response("deleteTask", loc[p].id, <<>>, 204, "empty",
                                <<"findById", "delete">>)
     \/ /\ TaskModel_delete_rejected(loc[p].id)
        /\ res' = [sendApiError("deleteTask", loc[p].id, <<>>, 500, <<"findById", "delete">>)
                     EXCEPT !.error = "SQLITE_ERROR"]
  /\ Idle(p)
  /\ UNCHANGED now
  /\ UNCHANGED tz

\* POST /delete-task/:id
postDeleteTask(id) ==
  /\ Ready
  /\ \/ /\ TaskModel_delete(id)
        /\ res' = IF TaskModel_delete_throws(id)
                  THEN [Response("postDeleteTask", id, <<>>, 500, "error.html", <<"delete">>)
                          EXCEPT !.error = "SQLITE_CONSTRAINT"]
                  ELSE Response("postDeleteTask", id, <<>>, 302, "redirect", <<"delete">>)
     \/ /\ TaskModel_delete_rejected(id)
        /\ res' = [Response("postDeleteTask", id, <<>>, 500, "error.html", <<"delete">>)
                     EXCEPT !.error = "SQLITE_ERROR"]
  /\ UNCHANGED <<now, pc, loc>>
  /\ UNCHANGED tz

\* history.map(entry => ({ summary, changed_at: toLocaleString }))
formattedHistory(history) ==
  [i \in 1..Len(history) |->
     [summary |-> history[i].change_summary,
      changed_at |-> toLocaleString(history[i].changed_at)]]

\* GET /api/v1/tasks/:id/history
getTaskHistory(id) ==
  /\ Ready
  /\ res' = [Response("getTaskHistory", id, <<>>, 200, "json", <<"getHistory">>)
               EXCEPT !.history = formattedHistory(getHistory(task_history, id))]
  /\ UNCHANGED <<tasks, task_history, now, pc, loc>>
  /\ UNCHANGED tz

\* the clock of new Date()
Tick ==
  /\ Ready
  /\ now < MaxNow
  /\ now' = now + 1
  /\ UNCHANGED <<tasks, task_history, pc, loc, res>>
  /\ UNCHANGED tz

\* the response leaves the server
flush ==
  /\ ~Ready
  /\ res' = NoResponse
  /\ UNCHANGED <<tasks, task_history, now, pc, loc>>
  /\ UNCHANGED tz

\* the server starts with empty tables, in UTC
Init ==
  /\ tasks = <<>>
  /\ task_history = <<>>
  /\ now = 1
  /\ pc = [p \in Procs |-> "idle"]
  /\ loc = [p \in Procs |-> NoLoc]
  /\ res = NoResponse
  /\ tz = UTC

\* A writing request is admitted while every request admitted can write its
\* history entry within MaxHistory, a create while tasks holds fewer than
\* MaxTasks rows.
CanWrite == Len(task_history) + InFlight < MaxHistory
CanCreate == CanWrite /\ Len(tasks) < MaxTasks

Next ==
  \/ CanCreate /\ \E body \in Bodies : createTask(body)
  \/ CanCreate /\ \E body \in Bodies : postCreateTask(body)
  \/ \E id \in Ids : getTaskById(id)
  \/ CanWrite /\ \E p \in Procs, id \in Ids : updateTask_findById(p, id)
  \/ \E p \in Procs, body \in Bodies : updateTask_update(p, body)
  \/ \E p \in Procs : updateTask_getHistory(p)
  \/ CanWrite /\ \E p \in Procs, id \in Ids, body \in Bodies : postEditTask_findById(p, id, body)
  \/ \E p \in Procs : postEditTask_update(p)
  \/ CanWrite /\ \E p \in Procs, id \in Ids : deleteTask_findById(p, id)
  \/ \E p \in Procs : deleteTask_delete(p)
  \/ CanWrite /\ \E id \in Ids : postDeleteTask(id)
  \/ \E id \in Ids : getTaskHistory(id)
  \/ Tick
  \/ flush

Spec == Init /\ [][Next]_vars

\* One request at a time, one task, one update of it, the clock standing still:
\* the bodies are many.
MaxSeqHistory == 2
CanWriteSeq == InFlight = 0 /\ Len(task_history) < MaxSeqHistory
CanCreateSeq == CanWriteSeq /\ Len(tasks) < 1

NextSeq ==
  \/ CanCreateSeq /\ \E body \in RichBodies : createTask(body)
  \/ CanCreateSeq /\ \E body \in RichBodies : postCreateTask(body)
  \/ CanWriteSeq /\ \E id \in Ids : updateTask_findById(1, id)
  \/ \E body \in RichBodies : updateTask_update(1, body)
  \/ updateTask_getHistory(1)
  \/ CanWriteSeq /\ \E id \in Ids, body \in RichBodies : postEditTask_findById(1, id, body)
  \/ postEditTask_update(1)
  \/ flush

SpecSeq == Init /\ [][NextSeq]_vars

\* One request at a time while the clock runs to MaxClock, so that a due date
\* stored as a future instant becomes a past one: the bodies carry the two
\* texts of one instant.
MaxClock == 3
ClockDates == {<<"2", "Z">>, <<"2", ".", "0", "Z">>, <<"0", "Z">>}
\* keys of a payload that are no field of the registry, with values that are
\* not the stored ones
OutsideFields ==
  << <<"id", <<"2">>>>, <<"created_at", <<"9", ".", "0", "Z">>>>,
     <<"updated_at", <<"9", ".", "0", "Z">>>>, <<"deleted_at", <<"9", ".", "0", "Z">>>>,
     <<"priority", <<"h">>>> >>

ClockBodies ==
  {<< <<"title", <<"a">>>>, <<"due_date", d>> >> : d \in ClockDates}
  \cup {<< <<"due_date", d>> >> : d \in ClockDates}
  \cup {<< <<"title", <<"b">>>> >>}
  \cup {b \o OutsideFields : b \in {<<>>, << <<"title", <<"b">>>> >>,
                                     << <<"title", <<"a">>>>, <<"due_date", <<"2", "Z">>>> >>}}

TickClock ==
  /\ Ready
  /\ now < MaxClock
  /\ now' = now + 1
  /\ UNCHANGED <<tasks, task_history, pc, loc, res>>
  /\ UNCHANGED tz

NextClock ==
  \/ CanCreateSeq /\ \E body \in ClockBodies : createTask(body)
  \/ CanCreateSeq /\ \E body \in ClockBodies : postCreateTask(body)
  \/ CanWriteSeq /\ \E id \in Ids : updateTask_findById(1, id)
  \/ \E body \in ClockBodies : updateTask_update(1, body)
  \/ updateTask_getHistory(1)
  \/ CanWriteSeq /\ \E id \in Ids, body \in ClockBodies : postEditTask_findById(1, id, body)
  \/ postEditTask_update(1)
  \/ TickClock
  \/ flush

SpecClock == Init /\ [][NextClock]_vars

\* One request at a time, on titles at the limits of the schema: TitleMax
\* characters and one more, none, the characters of markup, and a line break
\* (which \s of the two patterns matches), in a title and in a description.
BoundaryTitles ==
  {[i \in 1..TitleMax |-> "a"], [i \in 1..(TitleMax + 1) |-> "a"],
   <<>>, <<"<">>, <<">">>, <<"a", ">", "b">>, <<"b">>, <<"a", "\n", "b">>}
TitleBodies ==
  {<< <<"title", t>>, <<"due_date", <<"3", "Z">>>> >> : t \in BoundaryTitles}
  \cup {<< <<"title", t>> >> : t \in BoundaryTitles}
  \cup {<< <<"description", <<"x", "\n", "y">>>> >>}

NextTitle ==
  \/ CanCreateSeq /\ \E body \in TitleBodies : createTask(body)
  \/ CanCreateSeq /\ \E body \in TitleBodies : postCreateTask(body)
  \/ CanWriteSeq /\ \E id \in Ids : updateTask_findById(1, id)
  \/ \E body \in TitleBodies : updateTask_update(1, body)
  \/ updateTask_getHistory(1)
  \/ CanWriteSeq /\ \E id \in Ids, body \in TitleBodies : postEditTask_findById(1, id, body)
  \/ postEditTask_update(1)
  \/ flush

SpecTitle == Init /\ [][NextTitle]_vars

\* generateChangeLog on its own: one stored snapshot, drawn with values that
\* are missing (null, undefined, '') or that parse as no date, against every
\* incoming snapshot of the same kind.
OriginalValues(key) ==
  CASE key = "title" -> {<<"a">>, null, undefined}
    [] key = "description" -> {<<"x">>, null}
    [] key = "status" -> {PENDING, null, undefined}
    [] key = "due_date" -> {<<"3", "Z">>, <<"x", "Z">>, <<>>, null, undefined}

Originals ==
  {[id |-> 1, title |-> t, description |-> d, status |-> s, due_date |-> u,
    created_at |-> toISOString(1), updated_at |-> toISOString(1), deleted_at |-> null] :
     t \in OriginalValues("title"), d \in OriginalValues("description"),
     s \in OriginalValues("status"), u \in OriginalValues("due_date")}

Incomings ==
  {t \o d \o s \o u :
     t \in {<<>>} \cup {<< <<"title", v>> >> : v \in {<<"b">>, null}},
     d \in {<<>>} \cup {<< <<"description", v>> >> : v \in {<<>>, null}},
     s \in {<<>>} \cup {<< <<"status", v>> >> : v \in {IN_PROGRESS, null, undefined}},
     u \in {<<>>} \cup {<< <<"due_date", v>> >> :
                         v \in {<<"3", ".", "0", "Z">>, <<"2", "Z">>, <<"x", "Z">>, null}}}

\* the same payloads, and each with the keys outside the registry
IncomingsWide == Incomings \cup {incoming \o OutsideFields : incoming \in Incomings}

InitLog ==
  /\ tasks \in {<<original>> : original \in Originals}
  /\ task_history = <<>>
  /\ now = 1
  /\ pc = [p \in Procs |-> "idle"]
  /\ loc = [p \in Procs |-> NoLoc]
  /\ res = NoResponse
  /\ tz \in TimeZones

\* const changes = generateChangeLog(existingTask, incoming): what the call
\* returns (history) or the error it throws
generateChangeLog_call(incoming) ==
  /\ Ready
  /\ res' = IF generateChangeLog_throws(tasks[1], incoming)
            THEN [Response("generateChangeLog", 1, incoming, 0, "none", <<>>)
                    EXCEPT !.error = "TypeError"]
            ELSE [Response("generateChangeLog", 1, incoming, 0, "none", <<>>)
                    EXCEPT !.history = generateChangeLog(tasks[1], incoming)]
  /\ UNCHANGED <<tasks, task_history, now, pc, loc>>
  /\ UNCHANGED tz

NextLog ==
  \/ \E incoming \in IncomingsWide : generateChangeLog_call(incoming)
  \/ flush

SpecLog == InitLog /\ [][NextLog]_vars

\* --------------------------------------------------------- properties
Range(s) == {s[i] : i \in 1..Len(s)}
Last(s) == s[Len(s)]
IsPrefix(a, b) == Len(a) <= Len(b) /\ SubSeq(b, 1, Len(a)) = a

\* the entries of a task, in the order they were written
HistoryOf(rows, id) == SelectSeq(rows, LAMBDA h : h.task_id = id)

Deleted(id) == Exists(id) /\ tasks[id].deleted_at # null

TrackedFields == {"title", "description", "status", "due_date"}

\* The equality rule of a tracked field: exact equality; for status, equality
\* whatever the case; for due_date, the two sides are one value or parse to
\* one instant.
SameUnderRule(field, a, b) ==
  CASE field = "status" -> toLowerCase(a) = toLowerCase(b)
    [] field = "due_date" -> a = b \/ (getTime(a) # NaN /\ getTime(a) = getTime(b))
    [] OTHER -> a = b

\* one clause "<Label> changed from '<old>' to '<new>'" per field of fields
ClausesFor(fields, old, new) ==
  [i \in 1..Len(fields) |-> changeText(fields[i], old[fields[i]], new[fields[i]])]

Newlines(s) == Cardinality({i \in 1..Len(s) : s[i] = "\n"})

\* a line of summary starts with "<Label of field> changed from '"
HasClause(summary, field) ==
  LET start == label(field) \o ChangedFrom
  IN \E i \in 1..Len(summary) :
       /\ i = 1 \/ summary[i - 1] = "\n"
       /\ i + Len(start) - 1 <= Len(summary)
       /\ SubSeq(summary, i, i + Len(start) - 1) = start

\* This step is the write of the update request in slot p: the call of
\* TaskModel.update by PUT /api/v1/tasks/:id or POST /edit-task/:id.
ApiWrites(p) == pc[p] = "updateTask" /\ pc'[p] = "getHistory"
FormWrites(p) ==
  /\ pc[p] = "postEditTask" /\ pc'[p] = "idle"
  /\ "update" \in Range(res'.calls) /\ res'.error = "none"
Writes(p) == ApiWrites(p) \/ FormWrites(p)
\* the body that request submitted
Submitted(p) == IF pc[p] = "updateTask" THEN loc'[p].body ELSE loc[p].body

\* The tracked fields that request changes, in the fixed order: the fields
\* whose value after the write differs from the stored value under the field's
\* rule.
ChangedBy(p) ==
  LET old == tasks[loc[p].id]
      new == tasks'[loc[p].id]
  IN SelectSeq(<<"title", "description", "status", "due_date">>,
               LAMBDA f : ~SameUnderRule(f, old[f], new[f]))

\* every tracked field of body equals its stored value
EmptyDiff(stored, body) ==
  \A i \in 1..Len(body) :
    body[i][1] \in TrackedFields => SameUnderRule(body[i][1], stored[body[i][1]], body[i][2])

\* this step sends the response of a create that passed validation
Created ==
  /\ res = NoResponse
  /\ \/ res'.handler = "createTask" /\ res'.status = 201
     \/ res'.handler = "postCreateTask" /\ res'.status = 302

\* C1: for every create request that passes validation, immediately after the
\* create the history of the new task holds exactly one entry, and its summary
\* is "Task created".
C1_CreateWritesOneEntry ==
  [][Created =>
       /\ Len(tasks') = Len(tasks) + 1
       /\ LET h == HistoryOf(task_history', Len(tasks'))
          IN Len(h) = 1 /\ h[1].change_summary = TaskCreated]_vars

\* a create with a description and a status has answered 201, and the task it
\* returns has its one entry
C1_Witness ==
  /\ res.handler = "createTask" /\ res.status = 201
  /\ Len(res.body) = 4
  /\ Len(HistoryOf(task_history, res.task[1].id)) = 1

\* C2: for every update of an existing task whose diff against the stored task
\* is empty (every submitted tracked field equals the stored value under the
\* field's equality rule), no history entry is written: the task's history is
\* as long after the update as before.
C2_EmptyDiffWritesNoEntry ==
  [][\A p \in Procs :
       (Writes(p) /\ EmptyDiff(tasks[loc[p].id], Submitted(p)))
         => Len(HistoryOf(task_history', loc[p].id)) = Len(HistoryOf(task_history, loc[p].id))]_vars

\* C3: every update call adds at most one history entry to the task, whatever
\* the number of tracked fields it changes: when it changes any, the one entry
\* it adds holds a clause for every changed field, the clauses joined by
\* newlines; the steps of the call around its write add nothing.
C3_OneEntryPerUpdate ==
  [][\A p \in Procs :
       /\ Writes(p) =>
            LET id == loc[p].id
                changed == ChangedBy(p)
            IN /\ IsPrefix(task_history, task_history')
               /\ Len(task_history') <= Len(task_history) + 1
               /\ changed # <<>> =>
                    /\ Len(task_history') = Len(task_history) + 1
                    /\ Last(task_history').task_id = id
                    /\ \A i \in 1..Len(changed) :
                         HasClause(Last(task_history').change_summary, changed[i])
                    /\ Newlines(Last(task_history').change_summary) >= Len(changed) - 1
       /\ (pc'[p] # pc[p] /\ (pc[p] = "getHistory" \/ pc'[p] \in {"updateTask", "postEditTask"}))
            => task_history' = task_history]_vars

\* an update of three fields has answered 200: the task has its entry of the
\* create and one more, of three lines
C3_Witness ==
  /\ res.handler = "updateTask" /\ res.status = 200
  /\ Len(res.history) = 2
  /\ Newlines(res.history[1].change_summary) = 2

\* C4: for every update that changes k >= 1 tracked fields, the summary of the
\* newest history entry is exactly k clauses "<Label> changed from '<old>' to
\* '<new>'", one per changed field, in the order title, description, status,
\* due_date, whatever the order of the keys of the request.
C4_ClausesInFixedOrder ==
  [][\A p \in Procs :
       (Writes(p) /\ ChangedBy(p) # <<>>) =>
          LET old == tasks[loc[p].id]
              new == tasks'[loc[p].id]
          IN /\ Len(task_history') = Len(task_history) + 1
             /\ Last(task_history').task_id = loc[p].id
             /\ Last(task_history').change_summary
                  = Join(ClausesFor(ChangedBy(p), old, new), <<"\n">>)]_vars

\* an update whose body names status before title has answered 200, and the
\* newest entry reads "Title changed ..." and then "Status changed ..."
C4_Witness ==
  /\ res.handler = "updateTask" /\ res.status = 200
  /\ res.body = << <<"status", IN_PROGRESS>>, <<"title", <<"b">> >> >>
  /\ res.history[1].change_summary
       = Join(<<changeText("title", <<"a">>, <<"b">>),
                changeText("status", PENDING, IN_PROGRESS)>>, <<"\n">>)

\* C5: for every update request, of the JSON API and of the edit form alike, a
\* tracked field absent from the request keeps its stored value and has no
\* clause in the history entry of the update.
C5_AbsentFieldsUntouched ==
  [][\A p \in Procs :
       Writes(p) =>
         \A f \in TrackedFields :
           ~Has(Submitted(p), f) =>
             /\ tasks'[loc[p].id][f] = tasks[loc[p].id][f]
             /\ task_history' # task_history
                  => ~HasClause(Last(task_history').change_summary, f)]_vars

\* C6: after a task is soft-deleted, in every later state findById and
\* GET /api/v1/tasks/:id report it as not found, while its row is still stored
\* with a non-null deleted_at and every one of its history entries is still
\* stored.
C6_SoftDeletedStaysHidden ==
  /\ [](\A id \in Ids : Deleted(id) => findById(id) = <<>>)
  /\ []((res.handler = "getTaskById" /\ Deleted(res.id)) => res.status = 404)
  /\ []((res.handler \in {"deleteTask", "postDeleteTask"} /\ res.status \in {204, 302})
          => Deleted(res.id))
  /\ [][\A id \in Ids :
          Deleted(id) =>
            /\ id \in 1..Len(tasks') /\ tasks'[id].deleted_at # null
            /\ \A i \in 1..Len(task_history) :
                 task_history[i].task_id = id
                   => i <= Len(task_history') /\ task_history'[i] = task_history[i]]_vars

\* GET /api/v1/tasks/:id has answered 404 for a task deleted after an update:
\* its row and its three entries are stored
C6_Witness ==
  /\ res.handler = "getTaskById" /\ res.status = 404
  /\ Deleted(res.id)
  /\ Len(HistoryOf(task_history, res.id)) = 3

\* C7: history is append-only: no step of a create, an update, a delete or a
\* read modifies or removes an entry, so a later history holds every entry
\* (id, task_id, summary, changed_at) of an earlier one.
C7_HistoryAppendOnly ==
  [][IsPrefix(task_history, task_history')]_vars

\* a task has been created, updated and deleted, and its first two entries
\* are still there
C7_Witness ==
  /\ Len(task_history) = 3
  /\ task_history[1].change_summary = TaskCreated
  /\ HasClause(task_history[2].change_summary, "title")
  /\ task_history[3].change_summary = TaskDeleted

C9_ZeroRowUpdateIsNotFound ==
  [][\A p \in Procs :
       /\ (Writes(p) /\ findById(loc[p].id) = <<>>)
            => tasks' = tasks /\ task_history' = task_history
       /\ (FormWrites(p) /\ findById(loc[p].id) = <<>>) => res'.status = 404
       /\ (pc[p] = "getHistory" /\ pc'[p] = "idle" /\ loc[p].updatedTask = <<>>)
            => res'.status = 404]_vars

\* C10: every delete entry point confirms existence through findById before it
\* calls the store: a delete request for an id that is absent or already
\* soft-deleted is answered not-found and never reaches TaskModel.delete, so it
\* changes no row and adds no history entry.
C10_DeleteConfirmsExistence ==
  [][(/\ res = NoResponse
      /\ res'.handler \in {"deleteTask", "postDeleteTask"}
      /\ pc' = pc
      /\ findById(res'.id) = <<>>)
       => /\ res'.status = 404
          /\ "delete" \notin Range(res'.calls)
          /\ tasks' = tasks
          /\ task_history' = task_history]_vars

\* this step calls TaskModel.delete(id)
Deletes(id) ==
  \/ \E p \in Procs : pc[p] = "deleteTask" /\ pc'[p] = "idle" /\ loc[p].id = id
  \/ res = NoResponse /\ res'.handler = "postDeleteTask" /\ res'.id = id

\* C11: delete is idempotent at the row level: a delete call on a task that is
\* already soft-deleted leaves the row of the task as it is; deleted_at keeps
\* the value the first delete set.
C11_SecondDeleteKeepsRow ==
  [][\A id \in Ids : (Deleted(id) /\ Deletes(id)) => tasks' = tasks]_vars

\* a second delete has run at a later instant than the first, and deleted_at
\* is the instant of the first
C11_Witness ==
  /\ res.handler = "postDeleteTask" /\ res.status = 302
  /\ Len(SelectSeq(task_history,
                   LAMBDA h : h.task_id = res.id /\ h.change_summary = TaskDeleted)) = 2
  /\ Deleted(res.id)
  /\ tasks[res.id].deleted_at # toISOString(now)

\* this step ends the part of the update request in slot p that runs from
\* findById's answer: it rejects the request or calls TaskModel.update
UpdateStep(p) == pc[p] \in {"updateTask", "postEditTask"} /\ pc'[p] # pc[p]
\* the body of that request
Sent(p) ==
  IF pc[p] = "postEditTask" THEN loc[p].body
  ELSE IF pc'[p] = "getHistory" THEN loc'[p].body
  ELSE res'.body

\* this step sends the response of a create request
CreateStep == res = NoResponse /\ res'.handler \in {"createTask", "postCreateTask"}

Rejects ==
  /\ res = NoResponse
  /\ res'.handler \in {"createTask", "postCreateTask", "updateTask", "postEditTask"}
  /\ res'.status = 400 \/ res'.view \in {"create.html", "edit.html"}

\* field f of the request answered by r breaks a rule of validation: the
\* schema's (only the API update takes a body without title or due_date), or
\* the rule that a due date is not in the past
Offending(f, r) ==
  LET v == Get(r.body, f)
      partial == r.handler = "updateTask"
  IN CASE f = "title" -> IF v = undefined THEN ~partial ELSE ~TITLE_REGEX(v)
       [] f = "description" -> v # undefined /\ v # <<>> /\ ~DESC_REGEX(v)
       [] f = "status" -> v # undefined /\ v \notin StatusEnum
       [] f = "due_date" -> IF v = undefined THEN ~partial
                            ELSE v = <<>> \/ Last(v) # "Z" \/ Lt(getTime(v), now)
       [] OTHER -> FALSE

\* C13: validation runs before any mutation: every create or update request
\* that is rejected, by the schema or by the due-date rule, ends with a
\* validation error that names the offending field, without a call of
\* TaskModel.create or TaskModel.update, and leaves tasks and task_history
\* unchanged.
C13_RejectedRequestsWriteNothing ==
  [][Rejects =>
       /\ tasks' = tasks /\ task_history' = task_history
       /\ "create" \notin Range(res'.calls) /\ "update" \notin Range(res'.calls)
       /\ res'.errors # <<>>
       /\ \A i \in 1..Len(res'.errors) : Offending(res'.errors[i].path, res')]_vars

\* the edit form has been rejected by the due-date rule after its findById,
\* and the task still has the one entry of its creation
C13_Witness ==
  /\ res.handler = "postEditTask" /\ res.view = "edit.html"
  /\ res.errors = FutureError
  /\ res.calls = <<"findById">>
  /\ Len(task_history) = 1

\* a create request has been accepted
Accepted ==
  \/ res.handler = "createTask" /\ res.status = 201
  \/ res.handler = "postCreateTask" /\ res.status = 302

\* C14: on create, a due_date that is the current instant or earlier is
\* rejected; only a due_date strictly later than the moment of validation is
\* accepted.
C14_CreateNeedsFutureDueDate ==
  Accepted =>
    /\ getTime(Get(res.body, "due_date")) # NaN
    /\ getTime(Get(res.body, "due_date")) > now

\* C14, for due dates that parse: a create with a due_date that is the current
\* instant or earlier is not accepted.
C14_ParsedDueDateNotLater ==
  (Accepted /\ getTime(Get(res.body, "due_date")) # NaN)
    => getTime(Get(res.body, "due_date")) > now

\* the response rejects an update by the future-date rule
RejectedByFutureRule ==
  /\ res.handler \in {"updateTask", "postEditTask"}
  /\ res.errors = FutureError

\* the due date stored for the task the response is about
StoredDueDate == findById(res.id)[1].due_date

\* C15: on update, the future-date rule rejects a due_date only if it changes
\* the due date to a past instant: a submitted due_date denoting the instant
\* of the stored one, in whatever text and even if that instant is past, is
\* never rejected by this rule.
C15_UnchangedInstantNotRejected ==
  RejectedByFutureRule =>
    /\ getTime(Get(res.body, "due_date")) # getTime(StoredDueDate)
    /\ getTime(Get(res.body, "due_date")) < now

\* C15, same text: a submitted due_date that is the stored text is never
\* rejected by the future-date rule, past or not.
C15_SameTextNotRejected ==
  RejectedByFutureRule => Get(res.body, "due_date") # StoredDueDate

\* an update that submits the stored, by now past, due date in its stored text
\* is answered without the future-date error
C15_Witness ==
  /\ res.handler \in {"updateTask", "postEditTask"}
  /\ res.status \in {200, 302}
  /\ res.errors = <<>>
  /\ findById(res.id) # <<>>
  /\ Get(res.body, "due_date") = StoredDueDate
  /\ Lt(getTime(StoredDueDate), now)

\* C16: every due_date accepted by create or update parses as an absolute
\* instant: text that denotes none (such as text that merely ends in 'Z') is
\* rejected with an error on due_date and is never stored.
C16_StoredDueDatesParse ==
  \A i \in 1..Len(tasks) : getTime(tasks[i].due_date) # NaN

\* text without the final 'Z' is rejected with an error on due_date
C16_Witness ==
  /\ res.handler = "createTask"
  /\ Get(res.body, "due_date") = <<"3">>
  /\ res.status = 400
  /\ \E i \in 1..Len(res.errors) : res.errors[i].path = "due_date"

\* the response answers a request whose body was validated
Validated ==
  /\ res.handler \in {"createTask", "postCreateTask", "updateTask", "postEditTask"}
  /\ Has(res.body, "title")

TitleError == \E i \in 1..Len(res.errors) : res.errors[i].path = "title"

\* C17: a title of exactly 100 whitelisted characters is accepted; a title of
\* 101 characters, an empty title, or a title containing '<' or '>' is
\* rejected with an error whose field path is title.
C17_TitleBoundary ==
  Validated =>
    LET title == Get(res.body, "title")
    IN /\ (Len(title) = 100 /\ Range(title) \subseteq RegexChars) => ~TitleError
       /\ (Len(title) = 101 \/ title = <<>> \/ "<" \in Range(title) \/ ">" \in Range(title))
            => /\ TitleError
               /\ res.status = 400 \/ res.view \in {"create.html", "edit.html"}

\* a task is created with a title of exactly 100 characters
C17_Witness ==
  /\ res.handler = "createTask"
  /\ res.status = 201
  /\ Len(Get(res.body, "title")) = 100
  /\ Len(tasks) = 1
  /\ Len(tasks[1].title) = 100

\* a title of 101 characters is rejected on update with an error on title
C17_WitnessOver ==
  /\ res.handler = "updateTask"
  /\ res.status = 400
  /\ Len(Get(res.body, "title")) = 101
  /\ TitleError

\* the update request in slot p submits a due_date denoting the instant of
\* the stored one
SameInstant(p) ==
  /\ UpdateStep(p)
  /\ Has(Sent(p), "due_date")
  /\ getTime(tasks[loc[p].id].due_date) # NaN
  /\ getTime(Get(Sent(p), "due_date")) = getTime(tasks[loc[p].id].due_date)

\* C18: due_date is compared by instant: an update whose stored due_date and
\* submitted due_date are two representations of one instant adds no entry
\* with a due-date clause and, when no other tracked field of the task
\* changes, no entry at all.
C18_SameInstantIsNoChange ==
  [][\A p \in Procs :
       SameInstant(p) =>
         /\ \A i \in (Len(task_history) + 1)..Len(task_history') :
              ~HasClause(task_history'[i].change_summary, "due_date")
         /\ (\A f \in TrackedFields \ {"due_date"} :
               SameUnderRule(f, tasks[loc[p].id][f], tasks'[loc[p].id][f]))
              => task_history' = task_history]_vars

\* the update of a task stored with due_date '3Z' by the body {due_date:
\* '3.0Z'} has written the row and no entry
C18_Witness ==
  /\ pc[1] = "getHistory"
  /\ loc[1].existingTask[1].due_date = <<"3", "Z">>
  /\ loc[1].body = << <<"due_date", <<"3", ".", "0", "Z">>>> >>
  /\ tasks[1].due_date = <<"3", ".", "0", "Z">>
  /\ Len(task_history) = 1

\* the text a clause shows for a value: nothing for a missing title,
\* description or due_date, the word null or undefined for a missing status,
\* "Invalid Date" for a due date that parses as none
Shown(key, v) ==
  IF v \in {null, undefined}
  THEN IF key = "status" THEN String(v) ELSE <<>>
  ELSE IF key = "due_date" /\ v # <<>> /\ getTime(v) = NaN THEN InvalidDate
  ELSE formatText(key, v)

HasOutsideField(body) == \E i \in 1..Len(body) : body[i][1] \notin TrackedFields

\* summary is lines that each start "<Label of a tracked field of body>
\* changed from '"
OnlyTrackedClauses(summary, body) ==
  \A i \in 1..Len(summary) :
    (i = 1 \/ summary[i - 1] = "\n") =>
      \E key \in TrackedFields :
        /\ Has(body, key)
        /\ IsPrefix(label(key) \o ChangedFrom, SubSeq(summary, i, Len(summary)))

\* C20: fields outside the registry (id, created_at, updated_at, deleted_at,
\* any unknown key) never produce a change clause, even when the incoming
\* payload holds them with a value that is not the stored one: every clause
\* generateChangeLog returns is of a tracked field of the payload, at most one
\* per such field.
C20_OutsideFieldsNeverLogged ==
  (res.handler = "generateChangeLog" /\ HasOutsideField(res.body)) =>
    /\ \A i \in 1..Len(res.history) : OnlyTrackedClauses(res.history[i], res.body)
    /\ Len(res.history) <= Cardinality({key \in TrackedFields : Has(res.body, key)})

\* C20 through the update handlers: an update whose body holds keys outside
\* the registry adds only clauses of tracked fields, and leaves the task's id,
\* created_at and deleted_at as they were.
C20_HandlersIgnoreOutsideFields ==
  [][\A p \in Procs :
       (UpdateStep(p) /\ HasOutsideField(Sent(p))) =>
         /\ \A i \in (Len(task_history) + 1)..Len(task_history') :
              OnlyTrackedClauses(task_history'[i].change_summary, Sent(p))
         /\ tasks'[loc[p].id].id = tasks[loc[p].id].id
         /\ tasks'[loc[p].id].created_at = tasks[loc[p].id].created_at
         /\ tasks'[loc[p].id].deleted_at = tasks[loc[p].id].deleted_at]_vars

\* a payload of a new title and the five outside keys, against a stored task:
\* the one clause is the title's
C20_Witness ==
  /\ res.handler = "generateChangeLog"
  /\ tasks[1].id = 1
  /\ tasks[1].title = <<"a">>
  /\ res.body = << <<"title", <<"b">>>> >> \o OutsideFields
  /\ Len(res.history) = 1

\* an update whose body is the outside keys alone has been answered 200, and
\* the task has the one entry of its create
C20_WitnessHandler ==
  /\ res.handler = "updateTask"
  /\ res.status = 200
  /\ res.body = OutsideFields
  /\ Len(res.history) = 1

\* C21: a history request for a task id that does not exist, or that is not
\* visible, is answered 404 and not with a 200 list.
C21_HistoryOfMissingTaskIsNotFound ==
  (res.handler = "getTaskHistory" /\ findById(res.id) = <<>>) => res.status = 404

\* the history of a visible task is answered 200 with its entries
C21_Witness ==
  /\ res.handler = "getTaskHistory"
  /\ findById(res.id) # <<>>
  /\ res.status = 200
  /\ Len(res.history) >= 1

\* the handlers of the JSON API, /api/v1/tasks
ApiHandlers == {"createTask", "getTaskById", "updateTask", "deleteTask", "getTaskHistory"}

\* the body of the response is an RFC 7807 problem object for its status
IsProblem(r) ==
  /\ r.view = "problem"
  /\ Len(r.problem) = 1
  /\ DOMAIN r.problem[1] = {"type", "title", "status", "detail"}
  /\ r.problem[1].status = r.status
  /\ r.problem[1].type = <<"https://httpstatuses.com/", r.status>>
  /\ r.problem[1].title = statusTitles(r.status)
  /\ r.problem[1].title # "Unknown Error"
  /\ r.problem[1].detail # <<>>

\* C22: every error response of the JSON API (400, 404, 500) is an RFC 7807
\* problem object with type, title, status and detail: status is the HTTP
\* status, type is https://httpstatuses.com/<status>, title the standard title
\* of the code.
C22_ApiErrorsAreProblems ==
  (res.handler \in ApiHandlers /\ res.status \in {400, 404, 500}) => IsProblem(res)

\* C22 without the validation errors: every 404 and 500 of the JSON API is a
\* problem object.
C22_NotFoundAndInternalAreProblems ==
  (res.handler \in ApiHandlers /\ res.status \in {404, 500}) => IsProblem(res)

\* a fetch of a deleted task is answered with the problem object of 404
C22_Witness ==
  /\ res.handler = "getTaskById"
  /\ res.status = 404
  /\ Deleted(res.id)
  /\ IsProblem(res)
  /\ res.problem[1].title = "Not Found"

\* "Status changed from 'Pending' to 'In Progress'"
StatusPendingToInProgress ==
  <<"S", "t", "a", "t", "u", "s", " ", "c", "h", "a", "n", "g", "e", "d", " ", "f", "r", "o", "m", " ", "'", "P", "e", "n", "d", "i", "n", "g", "'", " ", "t", "o", " ", "'", "I", "n", " ", "P", "r", "o", "g", "r", "e", "s", "s", "'">>

Summaries(history) == [i \in 1..Len(history) |-> history[i].change_summary]

DueDateClauseIn(zone, old, new) ==
  DueDate \o ChangedFrom \o due_date_formatIn(zone, old) \o To
  \o due_date_formatIn(zone, new) \o <<"'">>

\* C24: audit text is deterministic: the change summary of a transition (the
\* stored task, the incoming payload) is the same text whatever the environment
\* of the server, in particular its local time zone: the due-date clause
\* returned is the clause a server in any other time zone returns.
C24_AuditTextIsZoneFree ==
  res.handler = "generateChangeLog" =>
    \A i \in 1..Len(res.history) :
      IsPrefix(DueDate \o ChangedFrom, res.history[i]) =>
        \A zone \in TimeZones :
          res.history[i] = DueDateClauseIn(zone, tasks[1].due_date, Get(res.body, "due_date"))

\* C24 for the other fields: the clauses of title, description and status do
\* not depend on the time zone (they are written without it).
C24_OtherClausesAreZoneFree ==
  res.handler = "generateChangeLog" =>
    \A i \in 1..Len(res.history) :
      ~IsPrefix(DueDate \o ChangedFrom, res.history[i]) =>
        \E key \in {"title", "description", "status"} :
          res.history[i] = changeText(key, tasks[1][key], Get(res.body, key))

\* a server outside UTC has returned a due-date clause for a due date that
\* parses
C24_Witness ==
  /\ res.handler = "generateChangeLog"
  /\ tz # UTC
  /\ tasks[1].due_date = <<"x", "Z">>
  /\ Get(res.body, "due_date") = <<"3", ".", "0", "Z">>
  /\ \E i \in 1..Len(res.history) : IsPrefix(DueDate \o ChangedFrom, res.history[i])

\* the validated data of the update request in slot p, at its write
DataOf(p) ==
  IF pc[p] = "updateTask" THEN taskSchema(Sent(p), TRUE).data ELSE loc[p].newData

\* the row that request merged from the task it loaded: its own values where
\* it submitted one, the loaded values elsewhere, the time of the write
MergedBy(p) ==
  [f \in DOMAIN loc[p].existingTask[1] |->
     IF f = "updated_at" THEN toISOString(now)
     ELSE IF Has(DataOf(p), f) THEN Get(DataOf(p), f)
     ELSE loc[p].existingTask[1][f]]

MutableFields == {"title", "description", "status", "due_date", "updated_at"}

\* C25: last writer wins at row level: when updates of one task interleave
\* (each loads the task before the other writes), the stored row after a
\* commit is the merged row of the update that committed, in every mutable
\* field: the fields it did not submit are written back as it loaded them.
C25_LastWriterWins ==
  [][\A p \in Procs :
       (Writes(p) /\ findById(loc[p].id) # <<>>) =>
         \A f \in MutableFields : tasks'[loc[p].id][f] = MergedBy(p)[f]]_vars

\* two updates loaded the task with title 'a'; the first wrote title 'b' and
\* its entry; the second, which submitted a status alone, has committed: the
\* title is 'a' again
C25_Witness ==
  \E p \in Procs :
    /\ pc[p] = "getHistory"
    /\ loc[p].body = << <<"status", IN_PROGRESS>> >>
    /\ loc[p].existingTask[1].title = <<"a">>
    /\ tasks[loc[p].id].title = <<"a">>
    /\ tasks[loc[p].id].status = IN_PROGRESS
    /\ \E i \in 1..Len(task_history) :
         /\ task_history[i].task_id = loc[p].id
         /\ HasClause(task_history[i].change_summary, "title")

\* line is one of the newline-separated lines of summary
HasLine(summary, line) ==
  \E i \in 1..Len(summary) :
    /\ i = 1 \/ summary[i - 1] = "\n"
    /\ i + Len(line) - 1 <= Len(summary)
    /\ SubSeq(summary, i, i + Len(line) - 1) = line
    /\ i + Len(line) - 1 = Len(summary) \/ summary[i + Len(line)] = "\n"

\* the values a tracked field takes in the requests and rows of the model
ValuesOf(f) ==
  CASE f = "title" -> TitleValues
    [] f = "description" -> DescriptionValues \cup {null}
    [] f = "status" -> StatusValues \cup {COMPLETED}
    [] f = "due_date" -> DueDateValues \cup ClockDates

\* the texts <<from, to>> of the clause of field f in summary
ClauseTexts(summary, f) ==
  {<<formatText(f, old), formatText(f, new)>> :
     <<old, new>> \in {c \in ValuesOf(f) \X ValuesOf(f) :
                        HasLine(summary, changeText(f, c[1], c[2]))}}

\* the entries of task id that hold a clause of field f, oldest first
ClausesOf(id, f) ==
  SelectSeq(HistoryOf(task_history, id), LAMBDA h : HasClause(h.change_summary, f))

\* C26: history is consistent with the stored task under any interleaving of
\* updates: for every task and tracked field, in the order of the history the
\* 'from' text of each clause is the 'to' text of the clause before it, and
\* the 'to' text of the last clause is the field's stored value as the clause
\* shows it.
C26_HistoryMatchesStoredTask ==
  \A id \in 1..Len(tasks), f \in TrackedFields :
    LET clauses == ClausesOf(id, f)
    IN /\ \A i \in 1..(Len(clauses) - 1) :
            \E a \in ClauseTexts(clauses[i].change_summary, f),
               b \in ClauseTexts(clauses[i + 1].change_summary, f) : a[2] = b[1]
       /\ clauses # <<>> =>
            \E a \in ClauseTexts(Last(clauses).change_summary, f) :
              a[2] = formatText(f, tasks[id][f])

\* one update of a task has written a title clause, and the stored title is
\* the clause's 'to' text
C26_Witness ==
  /\ Len(tasks) = 1
  /\ Len(ClausesOf(1, "title")) = 1
  /\ \E a \in ClauseTexts(ClausesOf(1, "title")[1].change_summary, "title") :
       a[1] = <<"a">> /\ a[2] = <<"b">> /\ tasks[1].title = <<"b">>

\* the positions of the "Task deleted" entries in the history of task id
DeletedAt(id) ==
  {i \in 1..Len(HistoryOf(task_history, id)) :
     HistoryOf(task_history, id)[i].change_summary = TaskDeleted}

\* C27: for every task, under any sequence or interleaving of update and
\* delete requests of the API and of the pages, the history holds at most one
\* "Task deleted" entry, and no entry is written after it.
C27_DeletedEntryIsLast ==
  \A id \in Ids :
    /\ Cardinality(DeletedAt(id)) <= 1
    /\ \A i \in DeletedAt(id) : i = Len(HistoryOf(task_history, id))

\* C27 for updates: no entry of an update follows a "Task deleted" entry.
C27_NoUpdateEntryAfterDelete ==
  \A id \in Ids :
    \A i \in DeletedAt(id) :
      \A j \in (i + 1)..Len(HistoryOf(task_history, id)) :
        HistoryOf(task_history, id)[j].change_summary = TaskDeleted

\* an update that loaded the task before it was deleted has run its write
\* after the delete, and the "Task deleted" entry is still the last
C27_Witness ==
  /\ res.handler = "updateTask"
  /\ res.status = 200
  /\ Deleted(res.id)
  /\ DeletedAt(res.id) = {Len(HistoryOf(task_history, res.id))}

\* C28: no change clause is vacuous: in every clause generateChangeLog
\* returns, the old text shown differs from the new text shown, for all stored
\* and incoming values (a null against an empty description, two due dates
\* within one minute).
C28_NoVacuousClause ==
  res.handler = "generateChangeLog" =>
    \A key \in TrackedFields :
      (/\ Has(res.body, key)
       /\ changeText(key, tasks[1][key], Get(res.body, key)) \in Range(res.history))
        => formatText(key, tasks[1][key]) # formatText(key, Get(res.body, key))

\* C28 through the handlers: no entry written by an update holds a clause
\* whose two texts are one.
C28_NoVacuousClauseStored ==
  \A i \in 1..Len(task_history), f \in TrackedFields :
    \A a \in ClauseTexts(task_history[i].change_summary, f) : a[1] # a[2]

\* a title clause whose two texts differ has been returned
C28_Witness ==
  /\ res.handler = "generateChangeLog"
  /\ tasks[1].title = <<"a">>
  /\ tasks[1].description = null
  /\ Get(res.body, "title") = <<"b">>
  /\ ~Has(res.body, "description")
  /\ changeText("title", <<"a">>, <<"b">>) \in Range(res.history)

\* C29: a stored change summary can be split back into its clauses: for every
\* update accepted by validation, the number of newline-separated lines of the
\* summary written equals the number of tracked fields that changed (no
\* accepted title or description adds a line break of its own).
C29_OneLinePerChangedField ==
  [][\A p \in Procs :
       (Writes(p) /\ Len(task_history') = Len(task_history) + 1) =>
         Newlines(Last(task_history').change_summary) + 1 = Len(ChangedBy(p))]_vars

\* an update of the title alone has answered 200, and its entry is one line
C29_Witness ==
  /\ res.handler = "updateTask"
  /\ res.status = 200
  /\ res.body = << <<"title", <<"b">>>> >>
  /\ Len(res.history) = 2
  /\ HasClause(res.history[1].change_summary, "title")
  /\ Newlines(res.history[1].change_summary) = 0

\* C30: an update never changes a task's id, created_at or deleted_at: for
\* every update request, whatever its payload and whatever ran between its
\* load and its write, the three stored values of every task are after the
\* update what they were before it.
C30_UpdateKeepsIdentity ==
  [][\A p \in Procs :
       UpdateStep(p) =>
         /\ Len(tasks') = Len(tasks)
         /\ \A i \in 1..Len(tasks) :
              /\ tasks'[i].id = tasks[i].id
              /\ tasks'[i].created_at = tasks[i].created_at
              /\ tasks'[i].deleted_at = tasks[i].deleted_at]_vars

\* an update has written a new title at a later instant than the create:
\* updated_at moved, created_at did not
C30_Witness ==
  \E p \in Procs :
    /\ pc[p] = "getHistory"
    /\ tasks[loc[p].id].title # loc[p].existingTask[1].title
    /\ tasks[loc[p].id].updated_at # tasks[loc[p].id].created_at
    /\ tasks[loc[p].id].created_at = loc[p].existingTask[1].created_at
    /\ tasks[loc[p].id].deleted_at = null

====
